---- MODULE Spec2Model ----
(***************************************************************************)
(* Twikoo comment backup: the durable three-step backup workflow           *)
(* (fetch comments -> save to D1 -> clean D1) of src/src/index.ts, the D1  *)
(* table comments_backup it writes, the retention value it reads from      *)
(* BACKUP_KEEP_DAYS, and the Worker's handlers: the password-protected     *)
(* panel (list, download, manual backup, login) and the cron trigger.      *)
(*                                                                         *)
(* Strings are sequences of one-character strings, so that parseInt and    *)
(* JSON.stringify are computed character by character.                     *)
(***************************************************************************)
EXTENDS Integers, Sequences, FiniteSets

(***************************************************************************)
(* Bounds of the model.                                                    *)
(***************************************************************************)
\* Attempts the workflow engine gives one step before step.do throws.
MaxAttempts == 2
\* Rows the table may hold when the behaviour starts (ids 1..n, n <= MaxInitRows).
MaxInitRows == 3
\* Last calendar day the clock reaches (days are numbered from 1).
MaxDay == 2

\* The default retention of `parseInt(BACKUP_KEEP_DAYS) || 3`.
DefaultKeep == 3

\* The workflow instances one behaviour may create, in this order.
RunIds == {"i1", "i2"}

(***************************************************************************)
(* parseInt(string) of ECMAScript, radix absent.                           *)
(***************************************************************************)
WhiteSpace == {" "}
DecDigits == {"0", "1", "2", "3", "4", "5", "6", "7", "8", "9"}
HexDigits == DecDigits \cup {"a", "b", "c", "d", "e", "f"}

DigitVal(c) ==
  CASE c = "0" -> 0 [] c = "1" -> 1 [] c = "2" -> 2 [] c = "3" -> 3
    [] c = "4" -> 4 [] c = "5" -> 5 [] c = "6" -> 6 [] c = "7" -> 7
    [] c = "8" -> 8 [] c = "9" -> 9 [] c = "a" -> 10 [] c = "b" -> 11
    [] c = "c" -> 12 [] c = "d" -> 13 [] c = "e" -> 14 [] c = "f" -> 15

RECURSIVE TrimStart(_)
TrimStart(s) ==
  IF s # <<>> /\ Head(s) \in WhiteSpace THEN TrimStart(Tail(s)) ELSE s

RECURSIVE DigitPrefix(_, _)
\* The longest prefix of s made of digits of the radix.
DigitPrefix(s, digits) ==
  IF s # <<>> /\ Head(s) \in digits
    THEN <<Head(s)>> \o DigitPrefix(Tail(s), digits)
    ELSE <<>>

RECURSIVE DigitsValue(_, _)
DigitsValue(z, radix) ==
  IF z = <<>> THEN 0
  ELSE DigitsValue(SubSeq(z, 1, Len(z) - 1), radix) * radix + DigitVal(z[Len(z)])

NaN == [nan |-> TRUE, val |-> 0]
Num(n) == [nan |-> FALSE, val |-> n]

\* An environment value: unset (undefined) or a string.
Unset == [set |-> FALSE, str |-> <<>>]
Str(s) == [set |-> TRUE, str |-> s]

\* String(undefined) is "undefined", which has no digit prefix.
JsString(v) ==
  IF v.set THEN v.str ELSE <<"u", "n", "d", "e", "f", "i", "n", "e", "d">>

ParseInt(v) ==
  LET s0 == TrimStart(JsString(v))
      neg == s0 # <<>> /\ Head(s0) = "-"
      s1 == IF s0 # <<>> /\ Head(s0) \in {"+", "-"} THEN Tail(s0) ELSE s0
      hex == Len(s1) >= 2 /\ s1[1] = "0" /\ s1[2] \in {"x", "X"}
      s2 == IF hex THEN Tail(Tail(s1)) ELSE s1
      radix == IF hex THEN 16 ELSE 10
      z == DigitPrefix(s2, IF hex THEN HexDigits ELSE DecDigits)
  IN IF z = <<>> THEN NaN
     ELSE Num((IF neg THEN -1 ELSE 1) * DigitsValue(z, radix))

\* Faulty variant of KeepDays: only NaN falls back to the default (`|| 3` written
\* as an isNaN test), so "0" keeps 0 rows.
KeepDaysNaNOnly(v) ==
  LET n == ParseInt(v)
  IN IF n.nan THEN DefaultKeep ELSE n.val

\* `parseInt(BACKUP_KEEP_DAYS) || 3`: NaN and 0 are falsy.
KeepDays(v) ==
  LET n == ParseInt(v)
  IN IF n.nan \/ n.val = 0 THEN DefaultKeep ELSE n.val

(***************************************************************************)
(* Values of BACKUP_KEEP_DAYS a deployment may carry.                      *)
(***************************************************************************)
KeepConfigs ==
  { Unset,
    Str(<<>>),
    Str(<<"0">>),
    Str(<<"-", "0">>),
    Str(<<"a", "b">>),
    Str(<<"2">>),
    Str(<<" ", "2">>),
    Str(<<"2", "a">>),
    Str(<<"0", "x", "2">>),
    Str(<<"1">>),
    Str(<<"3">>),
    Str(<<"1", "0">>),
    Str(<<"-">>),
    Str(<<"0", "x">>),
    Str(<<"-", "1">>) }

(***************************************************************************)
(* JSON values and JSON.stringify.  `data.data` of the remote answer is    *)
(* absent (undefined) or an array of comments; a comment is a digit.       *)
(***************************************************************************)
Undefined == [t |-> "undefined", v |-> <<>>]
Arr(a) == [t |-> "array", v |-> a]

DataValues == { Undefined, Arr(<<>>), Arr(<<7>>) }

DigitChar(n) ==
  CASE n = 0 -> "0" [] n = 1 -> "1" [] n = 2 -> "2" [] n = 3 -> "3"
    [] n = 4 -> "4" [] n = 5 -> "5" [] n = 6 -> "6" [] n = 7 -> "7"
    [] n = 8 -> "8" [] n = 9 -> "9"

RECURSIVE JoinItems(_)
JoinItems(a) ==
  IF a = <<>> THEN <<>>
  ELSE IF Len(a) = 1 THEN <<DigitChar(a[1])>>
  ELSE <<DigitChar(a[1]), ",">> \o JoinItems(Tail(a))

\* JSON.stringify(undefined) is undefined, not a string.
Stringify(j) ==
  IF j.t = "undefined" THEN Unset
  ELSE Str(<<"[">> \o JoinItems(j.v) \o <<"]">>)

(***************************************************************************)
(* The D1 table comments_backup: a set of rows [id, date, content].        *)
(***************************************************************************)
Ids(rows) == { row.id : row \in rows }

MaxOf(S) == CHOOSE x \in S : \A y \in S : y <= x

\* The rowid an INSERT gets: one more than the largest in the table.
NextRowId(rows) == IF rows = {} THEN 1 ELSE MaxOf(Ids(rows)) + 1

\* Faulty variant of InsertRow: the statement is prepared and never run.
InsertRowNotRun(rows, date, content) == rows

\* Faulty variant of InsertRow: the row gets the smallest id that is free, so
\* the id of a deleted row is given again.
InsertRowLowestFree(rows, date, content) ==
  LET free == CHOOSE i \in 1..(Cardinality(rows) + 1) :
                /\ i \notin Ids(rows)
                /\ \A j \in 1..(i - 1) : j \in Ids(rows)
  IN rows \cup { [id |-> free, date |-> date, content |-> content] }

\* INSERT INTO comments_backup (date, content) VALUES (?, ?)
InsertRow(rows, date, content) ==
  rows \cup { [id |-> NextRowId(rows), date |-> date, content |-> content] }

\* Faulty variant of Largest: OFFSET 1, the k largest members below the
\* largest one.
LargestBelowNewest(S, k) ==
  { i \in S : /\ \E j \in S : j > i
              /\ Cardinality({ j \in S : j > i }) <= k }

RECURSIVE Largest(_, _)
\* The k largest members of S (all of S when it has fewer).
Largest(S, k) ==
  IF k <= 0 \/ S = {} THEN {}
  ELSE {MaxOf(S)} \cup Largest(S \ {MaxOf(S)}, k - 1)

\* SELECT id FROM comments_backup ORDER BY id DESC LIMIT ?
\* (SQLite: a negative LIMIT is no limit).
\* Faulty variant of SelectTopIds: ORDER BY id ASC, the smallest ids.
SelectTopIdsAsc(rows, limit) ==
  IF limit < 0 THEN Ids(rows)
  ELSE { i \in Ids(rows) : Cardinality({ j \in Ids(rows) : j < i }) < limit }

SelectTopIds(rows, limit) ==
  IF limit < 0 THEN Ids(rows) ELSE Largest(Ids(rows), limit)

\* DELETE FROM comments_backup WHERE id NOT IN (SELECT ... LIMIT ?)
\* Faulty variant of DeleteOld: each execution also deletes the oldest of the
\* rows it should keep, as long as more than one is left.
DeleteOldAndOldest(rows, limit) ==
  LET kept == { row \in rows : row.id \in SelectTopIds(rows, limit) }
  IN IF Cardinality(kept) <= 1 THEN kept
     ELSE { row \in kept : \E other \in kept : other.id < row.id }

DeleteOld(rows, limit) ==
  { row \in rows : row.id \in SelectTopIds(rows, limit) }

(***************************************************************************)
(* The remote Twikoo backend's answer to one POST, and the callback of     *)
(* step "fetch comments".                                                  *)
(***************************************************************************)
\* A response body: text that is not JSON, or the JSON object
\* {code, message, data}.
NoBody == [json |-> FALSE, text |-> "", code |-> 0, message |-> "", data |-> Undefined]
NotJson(text) == [NoBody EXCEPT !.text = text]
Json(code, message, data) ==
  [json |-> TRUE, text |-> "", code |-> code, message |-> message, data |-> data]

Bodies ==
  { NotJson("<html>") }
    \cup { Json(0, "", d) : d \in DataValues }
    \cup { Json(1, "bad token", Undefined) }

StatusLines ==
  { [status |-> 200, statusText |-> "OK"],
    [status |-> 500, statusText |-> "Internal Server Error"] }

\* The request was not sent yet.
NoResponse ==
  [reachable |-> FALSE, netError |-> "", status |-> 0, statusText |-> "", body |-> NoBody]

\* fetch() rejects (netError is err.message), or resolves with a response.
Responses ==
  { [NoResponse EXCEPT !.netError = "connection refused"] }
    \cup { [reachable |-> TRUE, netError |-> "", status |-> l.status,
            statusText |-> l.statusText, body |-> b] : l \in StatusLines, b \in Bodies }

\* res.ok
ResOk(res) == res.status >= 200 /\ res.status <= 299

\* new Error(...): its message is a fixed text followed by the values the
\* template interpolates.
NoDetail ==
  [status |-> 0, statusText |-> "", body |-> NoBody, code |-> 0, message |-> ""]
NewError(msg, detail) == [msg |-> msg, detail |-> detail]
NoError == NewError("", NoDetail)

Thrown(e) == [ok |-> FALSE, error |-> e, value |-> Undefined]
Returned(x) == [ok |-> TRUE, error |-> NoError, value |-> x]

FetchComments(resp) ==
  IF ~resp.reachable
    THEN Thrown(NewError("fetch twikoo failed",
                         [NoDetail EXCEPT !.message = resp.netError]))
  ELSE IF ~ResOk(resp)
    THEN Thrown(NewError("Twikoo API Http error",
                         [NoDetail EXCEPT !.status = resp.status,
                                          !.statusText = resp.statusText,
                                          !.body = resp.body]))
  \* res.json() has consumed the body, so res.text() in the catch rejects.
  ELSE IF ~resp.body.json
    THEN Thrown(NewError("TypeError: body already used", NoDetail))
  ELSE IF resp.body.code # 0
    THEN Thrown(NewError("Twikoo API error",
                         [NoDetail EXCEPT !.code = resp.body.code,
                                          !.message = resp.body.message]))
  ELSE Returned(resp.body.data)

(***************************************************************************)
(* The panel: requests to the fetch handler of the Worker and its          *)
(* responses.  A pathname is the sequence of its segments ("/" is <<>>,    *)
(* "/download/3" is <<"download", "3">>); a cookie header is a sequence    *)
(* of characters.                                                          *)
(***************************************************************************)
\* md5: the digest stands for itself, marked as a digest of its input;
\* different inputs have different digests.
md5(str) == <<"#">> \o str

\* `x || fallback` on an environment string: undefined and "" are falsy.
OrDefault(v, fallback) == IF v.set /\ v.str # <<>> THEN v ELSE Str(fallback)

\* Line 335.
adminPasswordHash(penv) == md5(OrDefault(penv.ADMIN_PASSWORD, <<"a", "d", "m", "i", "n">>).str)

\* Line 336: parseInt(env.COOKIE_EXPIRES_DAYS || "7").
cookieExpiresDays(penv) == ParseInt(OrDefault(penv.COOKIE_EXPIRES_DAYS, <<"7">>))

NoPanelEnv == [ADMIN_PASSWORD |-> Unset, COOKIE_EXPIRES_DAYS |-> Unset]

\* Values of ADMIN_PASSWORD and COOKIE_EXPIRES_DAYS a deployment may carry.
PanelConfigs ==
  { NoPanelEnv,
    [ADMIN_PASSWORD |-> Str(<<"p", "w">>), COOKIE_EXPIRES_DAYS |-> Str(<<"3", "0">>)] }

RECURSIVE TrimEnd(_)
TrimEnd(s) ==
  IF s # <<>> /\ s[Len(s)] \in WhiteSpace THEN TrimEnd(SubSeq(s, 1, Len(s) - 1)) ELSE s

\* String.prototype.trim
Trim(s) == TrimEnd(TrimStart(s))

RECURSIVE Split(_, _)
\* String.prototype.split on a one-character separator.
Split(s, sep) ==
  IF \A i \in 1..Len(s) : s[i] # sep THEN <<s>>
  ELSE LET i == CHOOSE k \in 1..Len(s) : s[k] = sep /\ \A j \in 1..(k - 1) : s[j] # sep
       IN <<SubSeq(s, 1, i - 1)>> \o Split(SubSeq(s, i + 1, Len(s)), sep)

\* String.prototype.startsWith
StartsWith(s, prefix) ==
  Len(s) >= Len(prefix) /\ SubSeq(s, 1, Len(prefix)) = prefix

AuthPrefix == <<"a", "u", "t", "h", "_", "t", "o", "k", "e", "n", "=">>

\* The value of the first cookie named auth_token; null (Unset) without one.
getTokenFromRequest(req) ==
  IF ~req.cookie.set \/ req.cookie.str = <<>> THEN Unset
  ELSE LET parts == Split(req.cookie.str, ";")
           hits == { i \in 1..Len(parts) : StartsWith(Trim(parts[i]), AuthPrefix) }
       IN IF hits = {} THEN Unset
          ELSE LET part == Trim(parts[CHOOSE i \in hits : \A j \in hits : i <= j])
               IN Str(SubSeq(part, Len(AuthPrefix) + 1, Len(part)))

\* Faulty variant of verifyToken: a request without a token is let in.
verifyTokenOrNone(token, expectedHash) == ~token.set \/ token = Str(expectedHash)

\* token === expectedHash
verifyToken(token, expectedHash) == token = Str(expectedHash)

\* The JSON body of a POST to /verify: not JSON, or an object with or
\* without the member hash.
NoJsonBody == [json |-> FALSE, hash |-> Unset]
HashBody(h) == [json |-> TRUE, hash |-> h]

NoRequest == [method |-> "", path |-> <<>>, cookie |-> Unset, body |-> NoJsonBody]

\* A response of the fetch handler.  `rows` is the JSON array of /list,
\* `content` the body of a download, `id` the instance id of /backup.
NoReply ==
  [ status |-> 0, text |-> "", rows |-> <<>>, content |-> <<>>,
    disposition |-> <<"", 0, "">>, location |-> "", id |-> "",
    success |-> FALSE, expiresInDays |-> NaN ]

\* logEvent: the event and the fields of its data the model keeps.
NoEvent == [event |-> "", success |-> FALSE, id |-> ""]
logEvent(event, success, id) == [event |-> event, success |-> success, id |-> id]

\* No handler has been invoked.
NoCall == [handler |-> "", req |-> NoRequest, res |-> NoReply, log |-> NoEvent, threw |-> FALSE]

\* The handler returned res after logging log.
Served(handler, req, res, log) ==
  [handler |-> handler, req |-> req, res |-> res, log |-> log, threw |-> FALSE]

\* The if-chain of the fetch handler: the first branch whose condition the
\* request meets.
Route(req) ==
  LET n == Len(req.path)
  IN IF req.path = <<"login">> THEN "login"
     ELSE IF req.path = <<"verify">> /\ req.method = "POST" THEN "verify"
     ELSE IF req.path = <<>> \/ req.path = <<"index.html">> THEN "home"
     ELSE IF n >= 1 /\ req.path[n] = "list" /\ req.method = "GET" THEN "list"
     ELSE IF n >= 2 /\ req.path[1] = "download" THEN "download"
     ELSE IF req.method = "POST" /\ n >= 1 /\ req.path[n] = "backup" THEN "backup"
     ELSE "none"

\* getTokenFromRequest and verifyToken, as every protected branch calls them.
isValid(req, penv) == verifyToken(getTokenFromRequest(req), adminPasswordHash(penv))

Unauthorized == [NoReply EXCEPT !.status = 401, !.text = "Unauthorized"]

RECURSIVE OrderByIdDesc(_)
\* SELECT id, date, LENGTH(content) AS size ... ORDER BY id DESC
OrderByIdDesc(rows) ==
  IF rows = {} THEN <<>>
  ELSE LET top == CHOOSE row \in rows : row.id = MaxOf(Ids(rows))
       IN <<[id |-> top.id, date |-> top.date, size |-> Len(top.content)]>>
            \o OrderByIdDesc(rows \ {top})

\* Faulty variant of ListReply: the statement has no ORDER BY ... and a LIMIT 1.
ListReplyNewestOnly(rows) ==
  [NoReply EXCEPT !.status = 200, !.rows = OrderByIdDesc({ row \in rows : row.id = MaxOf(Ids(rows)) })]

\* Response.json(results) of /list.
ListReply(rows) == [NoReply EXCEPT !.status = 200, !.rows = OrderByIdDesc(rows)]

\* Faulty variant of SelectById: the WHERE clause is replaced by ORDER BY id DESC.
SelectNewest(rows, id) == { row \in rows : row.id = MaxOf(Ids(rows)) }

\* WHERE id = ? with the text of the pathname bound: the rows whose id
\* that text denotes in decimal.
SelectById(rows, id) ==
  { row \in rows : id \in DecDigits /\ row.id = DigitVal(id) }

\* `attachment; filename="twikoo-comment-${row.date}.json"`
ContentDisposition(date) == <<"attachment; filename=twikoo-comment-", date, ".json">>

\* Faulty variant of DownloadReply: a missing row is answered with an empty file.
DownloadReplyEmptyFile(rows, id) ==
  LET found == SelectById(rows, id)
  IN IF found # {}
       THEN LET row == CHOOSE x \in found : TRUE
            IN [NoReply EXCEPT !.status = 200, !.content = row.content,
                               !.disposition = ContentDisposition(row.date)]
       ELSE [NoReply EXCEPT !.status = 200]

\* The response of /download/<id> (lines 401-414).
DownloadReply(rows, id) ==
  LET found == SelectById(rows, id)
  IN IF found # {}
       THEN LET row == CHOOSE x \in found : TRUE
            IN [NoReply EXCEPT !.status = 200, !.content = row.content,
                               !.disposition = ContentDisposition(row.date)]
       ELSE [NoReply EXCEPT !.status = 404, !.text = "not found"]

(***************************************************************************)
(* State.                                                                  *)
(***************************************************************************)
VARIABLES
  env,      \* BACKUP_KEEP_DAYS of the deployment
  today,    \* the UTC calendar day
  db,       \* the rows of comments_backup
  runs,     \* the workflow instances
  panelEnv, \* ADMIN_PASSWORD and COOKIE_EXPIRES_DAYS of the deployment
  last      \* history: the last invocation of a handler of the Worker

vars == <<env, today, db, runs, panelEnv, last>>

FetchStep == "fetch comments"
SaveStep == "save to D1"
CleanStep == "clean D1"
StepNames == {FetchStep, SaveStep, CleanStep}

NoResult == [status |-> "none"]

\* An instance that has not been created.
NoRun ==
  [ state |-> "none",        \* none, queued, running, complete, errored
    done |-> {},             \* the steps the engine has recorded as completed
    tries |-> 0,             \* failed attempts of the step being executed
    comments |-> Undefined,  \* the recorded output of "fetch comments"
    keepDays |-> 0,          \* locals of the current invocation of run()
    dateStr |-> 0,
    result |-> NoResult,     \* what run() returned
    error |-> NoError,       \* what run() threw
    logged |-> "",           \* the auto_backup event logged: "", success, failure
    logDate |-> 0,           \* the date field of that event
    logError |-> NoError,    \* the error field of that event
    started |-> {},          \* history: the steps whose callback has been entered
    ins |-> {},              \* history: ids of the rows this run inserted
    refetched |-> FALSE,     \* history: a request sent after fetch was recorded
    resp |-> NoResponse ]    \* history: the answer to the last request

\* Rows left by earlier runs: ids 1..n, captured before the first day.
OldRows(n) ==
  { [id |-> i, date |-> 0, content |-> Stringify(Arr(<<>>)).str] : i \in 1..n }

Init ==
  /\ env \in KeepConfigs
  /\ today = 1
  /\ db \in { OldRows(n) : n \in 0..MaxInitRows }
  /\ runs = [r \in RunIds |-> NoRun]
  /\ panelEnv = NoPanelEnv
  /\ last = NoCall

(***************************************************************************)
(* The workflow engine and run().                                          *)
(***************************************************************************)
\* The clock passes midnight UTC.
Tick ==
  /\ today < MaxDay
  /\ today' = today + 1
  /\ UNCHANGED <<env, db, runs, panelEnv, last>>

\* env.TWIKOO_COMMENT_BACKUP.create(): a new instance is queued.
CreateInstance(r) ==
  /\ runs[r].state = "none"
  /\ r = "i2" => runs["i1"].state # "none"
  /\ runs' = [runs EXCEPT ![r].state = "queued"]
  /\ UNCHANGED <<env, today, db, panelEnv, last>>

\* The body of run() before its try block: lines 27-30.
EnterRun(run) ==
  [run EXCEPT !.state = "running",
              !.keepDays = KeepDays(env),
              !.dateStr = today]

\* The engine invokes run() for a queued instance.
StartRun(r) ==
  /\ runs[r].state = "queued"
  /\ runs' = [runs EXCEPT ![r] = EnterRun(@)]
  /\ UNCHANGED <<env, today, db, panelEnv, last>>

\* The engine restarts a running instance: run() is invoked again from the
\* top and step.do returns the recorded output of every completed step.
Resume(r) ==
  /\ runs[r].state = "running"
  /\ runs' = [runs EXCEPT ![r] = EnterRun(@)]
  /\ UNCHANGED <<env, today, db, panelEnv, last>>

\* Faulty variant of NextStep: the table is cleaned before anything is fetched.
NextStepCleanFirst(run) ==
  IF CleanStep \notin run.done THEN CleanStep
  ELSE IF FetchStep \notin run.done THEN FetchStep
  ELSE IF SaveStep \notin run.done THEN SaveStep
  ELSE "return"

\* Faulty variant of NextStep: the save is not made to wait for the fetch.
NextStepSaveFirst(run) ==
  IF SaveStep \notin run.done THEN SaveStep
  ELSE IF FetchStep \notin run.done THEN FetchStep
  ELSE IF CleanStep \notin run.done THEN CleanStep
  ELSE "return"

\* Faulty variant of NextStep: a failed save starts over from the fetch (a retry
\* loop around the whole body, no recorded step output).
NextStepRefetch(run) ==
  IF FetchStep \notin run.done \/ (SaveStep \notin run.done /\ run.tries > 0)
    THEN FetchStep
  ELSE IF SaveStep \notin run.done THEN SaveStep
  ELSE IF CleanStep \notin run.done THEN CleanStep
  ELSE "return"

\* Faulty variant of NextStep: run() returns after the save, step "clean D1" is
\* missing.
NextStepNoClean(run) ==
  IF FetchStep \notin run.done THEN FetchStep
  ELSE IF SaveStep \notin run.done THEN SaveStep
  ELSE "return"

\* The step.do call run() is waiting in: the first, in the order of the
\* code, whose completion the engine has not recorded.
NextStep(run) ==
  IF FetchStep \notin run.done THEN FetchStep
  ELSE IF SaveStep \notin run.done THEN SaveStep
  ELSE IF CleanStep \notin run.done THEN CleanStep
  ELSE "return"

\* step.do: the callback returned and the engine recorded the step.
StepDone(run, name) ==
  [run EXCEPT !.done = @ \cup {name}, !.tries = 0, !.started = @ \cup {name}]

\* run() has returned or thrown: its locals are gone, the engine keeps the
\* instance's status with its output or error.
Ended(run) ==
  [run EXCEPT !.tries = 0, !.comments = Undefined, !.keepDays = 0, !.dateStr = 0,
              !.resp = NoResponse]

\* Faulty variant of StepFailed: the error of a step is caught and dropped, and
\* run() goes on with the next step.
StepFailedSwallowed(run, name, e) == StepDone(run, name)

\* step.do: the attempt failed.  It is retried until MaxAttempts attempts
\* have failed; then step.do throws, and the catch of run() logs the failure
\* and rethrows (lines 86-88).
\* Faulty variant of StepFailed: the attempt is repeated without limit, the
\* error never leaves the step.
StepFailedNoLimit(run, name, e) ==
  [run EXCEPT !.tries = (@ + 1) % MaxAttempts, !.started = @ \cup {name}]

StepFailed(run, name, e) ==
  IF run.tries + 1 < MaxAttempts
    THEN [run EXCEPT !.tries = @ + 1, !.started = @ \cup {name}]
    ELSE [Ended(run) EXCEPT !.started = @ \cup {name}, !.resp = run.resp,
                            !.state = "errored", !.error = e,
                            !.logged = "failure", !.logDate = run.dateStr,
                            !.logError = e]

\* What a D1 statement throws: the statement failed, or a bound value is
\* undefined.
D1Error == NewError("D1_ERROR", NoDetail)
D1TypeError == NewError("D1_TYPE_ERROR", NoDetail)

\* Outcomes of one D1 statement inside a step: "ok" (applied, the step is
\* recorded), "fail" (not applied, the attempt throws), "lost" (applied,
\* but the attempt ends without the engine recording the step).
D1Outcomes == {"ok", "fail", "lost"}

\* Step "fetch comments" (lines 34-65): one POST to the backend.
Fetch(r) ==
  /\ runs[r].state = "running"
  /\ NextStep(runs[r]) = FetchStep
  /\ \E resp \in Responses :
       LET out == FetchComments(resp)
           sent == [runs[r] EXCEPT !.refetched = @ \/ (FetchStep \in runs[r].done),
                                   !.resp = resp]
       IN runs' = [runs EXCEPT ![r] =
                     IF out.ok
                       THEN [StepDone(sent, FetchStep) EXCEPT !.comments = out.value]
                       ELSE StepFailed(sent, FetchStep, out.error)]
  /\ UNCHANGED <<env, today, db, panelEnv, last>>

\* Faulty variant of SaveToD1: `.run()` is missing, nothing is inserted.
SaveToD1NotRun(rows, run) == rows

\* The statement of step "save to D1" (lines 69-71).
SaveToD1(rows, run) ==
  InsertRow(rows, run.dateStr, Stringify(run.comments).str)

\* Step "save to D1" (lines 68-72).  D1 refuses to bind undefined.
Save(r) ==
  /\ runs[r].state = "running"
  /\ NextStep(runs[r]) = SaveStep
  /\ IF ~Stringify(runs[r].comments).set
       THEN /\ runs' = [runs EXCEPT ![r] = StepFailed(@, SaveStep, D1TypeError)]
            /\ db' = db
       ELSE \E o \in D1Outcomes :
              /\ db' = IF o = "fail" THEN db ELSE SaveToD1(db, runs[r])
              /\ LET wrote == [runs[r] EXCEPT !.ins = @ \cup (Ids(db') \ Ids(db))]
                 IN runs' = [runs EXCEPT ![r] =
                               IF o = "ok" THEN StepDone(wrote, SaveStep)
                               ELSE StepFailed(wrote, SaveStep, D1Error)]
  /\ UNCHANGED <<env, today, panelEnv, last>>

\* Faulty variant of CleanD1: the rows that are kept are stamped with the date
\* of the run (an UPDATE next to the DELETE).
CleanD1Touch(rows, run) ==
  { [row EXCEPT !.date = run.dateStr] : row \in DeleteOld(rows, run.keepDays) }

\* The statement of step "clean D1" (lines 75-82).
CleanD1(rows, run) == DeleteOld(rows, run.keepDays)

\* Step "clean D1" (lines 74-83).
Clean(r) ==
  /\ runs[r].state = "running"
  /\ NextStep(runs[r]) = CleanStep
  /\ \E o \in D1Outcomes :
       /\ db' = IF o = "fail" THEN db ELSE CleanD1(db, runs[r])
       /\ runs' = [runs EXCEPT ![r] =
                     IF o = "ok" THEN StepDone(@, CleanStep)
                     ELSE StepFailed(@, CleanStep, D1Error)]
  /\ UNCHANGED <<env, today, panelEnv, last>>

\* Faulty variant of RunResult: savedRows counts the rows the run inserted.
RunResultCounted(run) ==
  [status |-> "success", date |-> run.dateStr, savedRows |-> Cardinality(run.ins)]

\* The value run() returns (line 85).
RunResult(run) == [status |-> "success", date |-> run.dateStr, savedRows |-> 1]

\* Lines 84-85: the three steps are recorded; log and return.
Finish(r) ==
  /\ runs[r].state = "running"
  /\ NextStep(runs[r]) = "return"
  /\ runs' = [runs EXCEPT ![r] = [Ended(@) EXCEPT !.state = "complete",
                                                   !.logged = "success",
                                                   !.logDate = runs[r].dateStr,
                                                   !.result = RunResult(runs[r])]]
  /\ UNCHANGED <<env, today, db, panelEnv, last>>

Next ==
  \/ Tick
  \/ \E r \in RunIds : CreateInstance(r)
  \/ \E r \in RunIds : StartRun(r)
  \/ \E r \in RunIds : Resume(r)
  \/ \E r \in RunIds : Fetch(r)
  \/ \E r \in RunIds : Save(r)
  \/ \E r \in RunIds : Clean(r)
  \/ \E r \in RunIds : Finish(r)

Spec == Init /\ [][Next]_vars

\* One workflow instance from creation to its end, from any store and
\* any retention value.
Solo == "i1"

SoloNext ==
  \/ Tick
  \/ CreateInstance(Solo)
  \/ StartRun(Solo)
  \/ Resume(Solo)
  \/ Fetch(Solo)
  \/ Save(Solo)
  \/ Clean(Solo)
  \/ Finish(Solo)

SpecSolo == Init /\ [][SoloNext]_vars

\* The engine starts a queued instance and runs the step.do call run() is
\* waiting in (first attempt or retry) as long as the instance is live.
SoloFairness ==
  /\ WF_vars(StartRun(Solo))
  /\ WF_vars(Fetch(Solo))
  /\ WF_vars(Save(Solo))
  /\ WF_vars(Clean(Solo))
  /\ WF_vars(Finish(Solo))


(***************************************************************************)
(* The handlers of the Worker: fetch (one action for each branch of its    *)
(* if-chain) and scheduled.                                                *)
(***************************************************************************)
DefaultHash == md5(<<"a", "d", "m", "i", "n">>)
OtherHash == md5(<<"p", "w">>)

\* Cookie headers: the token of the default password; the token of the
\* configured password after another cookie; a wrong token before the
\* right one.
DefaultCookie == Str(AuthPrefix \o DefaultHash)
OtherCookie == Str(<<"x", "=", "1", ";", " ">> \o AuthPrefix \o OtherHash)
TwoTokens == Str(AuthPrefix \o <<"#">> \o <<";">> \o AuthPrefix \o DefaultHash)

Request(method, path, cookie) ==
  [method |-> method, path |-> path, cookie |-> cookie, body |-> NoJsonBody]

Requests ==
  { Request("GET", <<"list">>, c) : c \in {Unset, DefaultCookie, OtherCookie, TwoTokens} }
    \cup { Request("GET", <<"download", id>>, c) :
             id \in {"1", "4"}, c \in {Unset, DefaultCookie, OtherCookie} }
    \cup { Request("POST", <<"backup">>, c) : c \in {Unset, DefaultCookie, OtherCookie} }
    \cup { Request("GET", <<>>, c) : c \in {Unset, DefaultCookie} }
    \cup { Request("GET", <<"login">>, Unset),
           Request("GET", <<"backup">>, Unset),
           Request("POST", <<"list">>, DefaultCookie),
           Request("POST", <<"verify">>, Unset) }
    \cup { [Request("POST", <<"verify">>, Unset) EXCEPT !.body = HashBody(h)] :
             h \in {Unset, Str(DefaultHash), Str(OtherHash)} }

\* env.TWIKOO_COMMENT_BACKUP.create() can return instance r.
Creatable(r) ==
  /\ runs[r].state = "none"
  /\ r = "i2" => runs["i1"].state # "none"

\* Faulty variant of Created: create() returns a handle and queues nothing.
CreatedNothing(r) == runs

\* The instances after create() has returned instance r.
Created(r) == [runs EXCEPT ![r].state = "queued"]

\* Lines 339-342.
Login(req) ==
  /\ Route(req) = "login"
  /\ last' = Served("login", req, [NoReply EXCEPT !.status = 200, !.text = "loginPage"],
                    logEvent("login_page_view", FALSE, ""))
  /\ UNCHANGED <<env, today, db, runs, panelEnv>>

\* Lines 345-358.
Verify(req) ==
  /\ Route(req) = "verify"
  /\ last' =
       IF ~req.body.json
         THEN Served("verify", req,
                     [NoReply EXCEPT !.status = 400, !.text = "Invalid request"],
                     logEvent("login_error", FALSE, ""))
         ELSE LET ok == verifyToken(req.body.hash, adminPasswordHash(panelEnv))
              IN Served("verify", req,
                        [NoReply EXCEPT !.status = 200, !.success = ok,
                                        !.expiresInDays = cookieExpiresDays(panelEnv)],
                        logEvent("login_attempt", ok, ""))
  /\ UNCHANGED <<env, today, db, runs, panelEnv>>

\* Lines 361-375.
Home(req) ==
  /\ Route(req) = "home"
  /\ last' =
       IF ~isValid(req, panelEnv)
         THEN Served("home", req, [NoReply EXCEPT !.status = 302, !.location = "/login"], NoEvent)
         ELSE Served("home", req, [NoReply EXCEPT !.status = 200, !.text = "htmlPage"],
                     logEvent("page_view", FALSE, ""))
  /\ UNCHANGED <<env, today, db, runs, panelEnv>>

\* Lines 378-390.
List(req) ==
  /\ Route(req) = "list"
  /\ last' =
       IF ~isValid(req, panelEnv)
         THEN Served("list", req, Unauthorized, NoEvent)
         ELSE Served("list", req, ListReply(db), NoEvent)
  /\ UNCHANGED <<env, today, db, runs, panelEnv>>

\* url.pathname.split("/download/")[1]: the second segment; with more
\* segments a text with a slash, which denotes no id.
DownloadId(path) == IF Len(path) = 2 THEN path[2] ELSE "/"

\* Lines 393-415.
Download(req) ==
  /\ Route(req) = "download"
  /\ last' =
       IF ~isValid(req, panelEnv)
         THEN Served("download", req, Unauthorized, NoEvent)
         ELSE LET id == DownloadId(req.path)
                  res == DownloadReply(db, id)
              IN Served("download", req, res,
                        logEvent("download_backup", res.status = 200, id))
  /\ UNCHANGED <<env, today, db, runs, panelEnv>>

\* Lines 418-434.
Backup(req) ==
  /\ Route(req) = "backup"
  /\ IF ~isValid(req, panelEnv)
       THEN /\ last' = Served("backup", req, Unauthorized, NoEvent)
            /\ runs' = runs
       ELSE \/ \E r \in RunIds :
                 /\ Creatable(r)
                 /\ runs' = Created(r)
                 /\ last' = Served("backup", req,
                                   [NoReply EXCEPT !.status = 200,
                                                   !.text = "twikoo backup started",
                                                   !.id = r],
                                   logEvent("manual_backup", TRUE, r))
            \/ /\ runs' = runs
               /\ last' = Served("backup", req,
                                 [NoReply EXCEPT !.status = 500, !.text = "backup failed"],
                                 logEvent("manual_backup", FALSE, ""))
  /\ UNCHANGED <<env, today, db, panelEnv>>

\* Line 436.
NotFound(req) ==
  /\ Route(req) = "none"
  /\ last' = Served("none", req, [NoReply EXCEPT !.status = 404], NoEvent)
  /\ UNCHANGED <<env, today, db, runs, panelEnv>>

\* Faulty variant of CronFailed: the catch logs and rethrows.
CronFailedRethrown ==
  [handler |-> "scheduled", req |-> NoRequest, res |-> NoReply,
   log |-> logEvent("cron_backup", FALSE, ""), threw |-> TRUE]

\* scheduled(), create() having thrown: the catch logs (line 449).
CronFailed == Served("scheduled", NoRequest, NoReply, logEvent("cron_backup", FALSE, ""))

\* Lines 439-451: the cron trigger fires.
Scheduled ==
  /\ \/ \E r \in RunIds :
          /\ Creatable(r)
          /\ runs' = Created(r)
          /\ last' = Served("scheduled", NoRequest, NoReply, logEvent("cron_backup", TRUE, r))
     \/ /\ runs' = runs
        /\ last' = CronFailed
  /\ UNCHANGED <<env, today, db, panelEnv>>

\* The panel and one deployment: requests and cron firings at any time,
\* the engine running the first instance created.
InitPanel ==
  /\ env = Str(<<"2">>)
  /\ today = 1
  /\ db \in { OldRows(n) : n \in {0, MaxInitRows} }
  /\ runs = [r \in RunIds |-> NoRun]
  /\ panelEnv \in PanelConfigs
  /\ last = NoCall

PanelNext ==
  \/ \E req \in Requests : Login(req)
  \/ \E req \in Requests : Verify(req)
  \/ \E req \in Requests : Home(req)
  \/ \E req \in Requests : List(req)
  \/ \E req \in Requests : Download(req)
  \/ \E req \in Requests : Backup(req)
  \/ \E req \in Requests : NotFound(req)
  \/ Scheduled
  \/ StartRun(Solo)
  \/ Fetch(Solo)
  \/ Save(Solo)
  \/ Clean(Solo)
  \/ Finish(Solo)

SpecPanel == InitPanel /\ [][PanelNext]_vars

(***************************************************************************)
(* Two instances in flight at once: the engine interleaves their steps in  *)
(* any order, and D1 applies each statement atomically.                    *)
(***************************************************************************)
PairConfigs == { Str(<<"1">>), Str(<<"2">>), Str(<<"-", "1">>) }

InitPair ==
  /\ env \in PairConfigs
  /\ today = 1
  /\ db \in { OldRows(n) : n \in {0, MaxInitRows} }
  /\ runs = [r \in RunIds |-> NoRun]
  /\ panelEnv = NoPanelEnv
  /\ last = NoCall

PairNext ==
  \/ \E r \in RunIds : CreateInstance(r)
  \/ \E r \in RunIds : StartRun(r)
  \/ \E r \in RunIds : Fetch(r)
  \/ \E r \in RunIds : Save(r)
  \/ \E r \in RunIds : Clean(r)
  \/ \E r \in RunIds : Finish(r)

SpecPair == InitPair /\ [][PairNext]_vars

\* One instance under the engine's scheduling, on the same deployments.
SpecSoloFair == InitPair /\ [][SoloNext]_vars /\ SoloFairness

(***************************************************************************)
(* Runs one after another: the second instance is started when the first   *)
(* has ended, on a table that starts empty.                                *)
(***************************************************************************)
SeqConfigs == { Unset, Str(<<"1">>), Str(<<"2">>), Str(<<"3">>) }

InitSeq ==
  /\ env \in SeqConfigs
  /\ today = 1
  /\ db = {}
  /\ runs = [r \in RunIds |-> NoRun]
  /\ panelEnv = NoPanelEnv
  /\ last = NoCall

\* The engine invokes run() of the second instance after the first ended.
StartInOrder(r) ==
  /\ r = "i2" => runs["i1"].state \in {"complete", "errored"}
  /\ StartRun(r)

SeqNext ==
  \/ \E r \in RunIds : CreateInstance(r)
  \/ \E r \in RunIds : StartInOrder(r)
  \/ \E r \in RunIds : Fetch(r)
  \/ \E r \in RunIds : Save(r)
  \/ \E r \in RunIds : Clean(r)
  \/ \E r \in RunIds : Finish(r)

SpecSeq == InitSeq /\ [][SeqNext]_vars

(***************************************************************************)
(* Vocabulary of the properties.                                           *)
(***************************************************************************)
\* In this step the engine records step `name` of instance r as completed.
Completes(r, name) == name \in runs'[r].done /\ name \notin runs[r].done

\* In this step an attempt of step `name` of instance r ends (recorded,
\* retried later, or failing the run).
Attempts(r, name) ==
  /\ runs[r].state = "running"
  /\ NextStep(runs[r]) = name
  /\ \/ runs'[r].done # runs[r].done
     \/ runs'[r].tries # runs[r].tries
     \/ runs'[r].state # "running"

\* A string that is a decimal integer: digits after an optional sign.
IsDecimal(str) ==
  LET body == IF str # <<>> /\ Head(str) \in {"+", "-"} THEN Tail(str) ELSE str
  IN body # <<>> /\ \A i \in 1..Len(body) : body[i] \in DecDigits

\* The decimal integer is zero: every digit is 0.
IsZero(str) ==
  IsDecimal(str) /\ \A i \in 1..Len(str) : str[i] \in {"+", "-", "0"}

\* No number can be read at the start of the string.
IsNonNumeric(str) ==
  LET t == TrimStart(str)
      body == IF t # <<>> /\ Head(t) \in {"+", "-"} THEN Tail(t) ELSE t
  IN body = <<>> \/ Head(body) \notin DecDigits

\* A decimal integer below zero.
IsNegative(str) ==
  IsDecimal(str) /\ Head(str) = "-" /\ ~IsZero(str)

\* This step is an invocation of the named branch of the fetch handler
\* (a request repeated with the same response and log is not seen).
Serves(handler) == last' # last /\ last'.handler = handler

\* The text that denotes id in a pathname.
IdText(id) == IF id \in 0..9 THEN DigitChar(id) ELSE "/"

(***************************************************************************)
(* Properties.                                                             *)
(***************************************************************************)

\* The keepCount of the claims: a positive integer, 3 standing in for a
\* retention value that is not positive.
KeepCount(run) == IF run.keepDays >= 1 THEN run.keepDays ELSE 3

\* C1: in the state right after a run's Prune step ("clean D1") completes,
\* the table holds at most keepCount rows.
C1_BoundAfterPrune ==
  [][\A r \in RunIds :
       Completes(r, CleanStep) => Cardinality(db') <= KeepCount(runs[r])]_vars

\* C2: an applied Prune leaves exactly the rows whose id is among the
\* keepCount largest ids of the table it ran on (so it deletes the others,
\* whatever their date).
C2_PruneKeepsLargest ==
  [][\A r \in RunIds :
       (Attempts(r, CleanStep) /\ db' # db) \/ Completes(r, CleanStep)
         => db' = { row \in db : row.id \in Largest(Ids(db), KeepCount(runs[r])) }]_vars

\* The retention values the claim names: unset, zero, non-numeric.
ClaimedDefault(v) == ~v.set \/ IsZero(v.str) \/ IsNonNumeric(v.str)

C4_NonPositiveBecomesDefault ==
  \A r \in RunIds :
    (env.set /\ (IsZero(env.str) \/ IsNegative(env.str)) /\ runs[r].state = "running")
      => /\ runs[r].keepDays = 3
         /\ CleanStep \in runs[r].done => Cardinality(db) <= 3

\* C5: a run whose Fetch step has not completed changes no row, and when
\* Fetch exhausts its attempts the run ends failed with no row inserted and
\* no later step entered.
C5_FailedFetchTouchesNothing ==
  /\ [](\A r \in RunIds :
          (runs[r].state = "errored" /\ FetchStep \notin runs[r].done)
            => /\ runs[r].ins = {}
               /\ runs[r].started = {FetchStep}
               /\ runs[r].result = NoResult)
  /\ [][\A r \in RunIds :
          /\ (FetchStep \notin runs'[r].done /\ runs'[r] # runs[r]) => db' = db
          /\ ( /\ Attempts(r, FetchStep)
               /\ ~Completes(r, FetchStep)
               /\ runs[r].tries + 1 = MaxAttempts ) => runs'[r].state = "errored"]_vars

C5_Witness ==
  \E r \in RunIds :
    /\ runs[r].state = "errored"
    /\ FetchStep \notin runs[r].done
    /\ runs[r].error.msg = "Twikoo API error"
    /\ Cardinality(db) = 3

\* C6 (as claimed): a run that ends with status success has inserted
\* exactly one row.
C6_ExactlyOneRow ==
  \A r \in RunIds : runs[r].state = "complete" => Cardinality(runs[r].ins) = 1

\* C6 (amended): a run that ends with status success has inserted at least
\* one row and at most one per attempt of its Persist step: the attempt
\* that completes Persist inserts exactly one, every other attempt at most
\* one.
C6_AtLeastOneRow ==
  /\ [](\A r \in RunIds :
          runs[r].state = "complete"
            => /\ Cardinality(runs[r].ins) >= 1
               /\ Cardinality(runs[r].ins) <= MaxAttempts)
  /\ [][\A r \in RunIds :
          /\ Completes(r, SaveStep)
               => Cardinality(runs'[r].ins) = Cardinality(runs[r].ins) + 1
          /\ Cardinality(runs'[r].ins) <= Cardinality(runs[r].ins) + 1
          /\ runs'[r].ins # runs[r].ins => Attempts(r, SaveStep)]_vars

C6_Witness ==
  \E r \in RunIds : runs[r].state = "complete" /\ Cardinality(runs[r].ins) = 2

\* C7 (as claimed): no row inserted by a run that ended failed is in the
\* table.
C7_FailedRunLeavesNoRow ==
  \A r \in RunIds : runs[r].state = "errored" => runs[r].ins \cap Ids(db) = {}

\* C7 (amended): a run that ended failed has inserted no row when Fetch
\* raised the error, and at least one when Prune raised it (Persist had
\* completed and nothing is rolled back).
C7_FailedRunRows ==
  \A r \in RunIds :
    runs[r].state = "errored"
      => /\ FetchStep \notin runs[r].done => runs[r].ins = {}
         /\ SaveStep \in runs[r].done => runs[r].ins # {}

C7_Witness ==
  \E r \in RunIds :
    /\ runs[r].state = "errored"
    /\ SaveStep \in runs[r].done
    /\ runs[r].ins \cap Ids(db) # {}

C9_StepOrder ==
  \A r \in RunIds :
    /\ SaveStep \in runs[r].started => FetchStep \in runs[r].done
    /\ CleanStep \in runs[r].started => SaveStep \in runs[r].done
    /\ SaveStep \in runs[r].done => FetchStep \in runs[r].done
    /\ CleanStep \in runs[r].done => SaveStep \in runs[r].done
    /\ (runs[r].state = "complete" \/ runs[r].logged = "success"
          \/ runs[r].result # NoResult) => runs[r].done = StepNames

C9_Witness ==
  \E r \in RunIds :
    /\ runs[r].state = "complete"
    /\ runs[r].started = StepNames
    /\ runs[r].result.status = "success"

\* C10: once Fetch is recorded as completed the run sends no further
\* request, the recorded output does not change while the run goes on
\* (retries, resumes), and every row Persist inserts carries its
\* serialization.
C10_FetchOutputReused ==
  /\ [](\A r \in RunIds :
          /\ ~runs[r].refetched
          /\ runs[r].state = "running" =>
               \A row \in db :
                 row.id \in runs[r].ins
                   => Str(row.content) = Stringify(runs[r].comments))
  /\ [][\A r \in RunIds :
          (FetchStep \in runs[r].done /\ runs'[r].state = "running")
            => runs'[r].comments = runs[r].comments]_vars

C10_Witness ==
  \E r \in RunIds :
    /\ runs[r].state = "running"
    /\ runs[r].comments = Arr(<<7>>)
    /\ Cardinality(runs[r].ins) = 2
    /\ runs[r].dateStr = 2
    /\ \A row \in db : row.id \in runs[r].ins => row.date = 1

\* C11: every row a run has inserted carries the one date of that run: the
\* date the running body holds (also after a retry or a resume, and after
\* the UTC day has changed), the date of its result record and the date
\* of its auto_backup log event.
C11_OneCaptureDate ==
  \A r \in RunIds :
    \A row \in db :
      row.id \in runs[r].ins
        => /\ runs[r].state = "running" => row.date = runs[r].dateStr
           /\ runs[r].logged # "" => row.date = runs[r].logDate
           /\ runs[r].state = "complete" => row.date = runs[r].result.date

\* The error the claim assigns to a remote answer that fails a check, the
\* checks taken in the claimed order.
ClaimedFetchError(resp) ==
  IF ~resp.reachable
    THEN NewError("fetch twikoo failed", [NoDetail EXCEPT !.message = resp.netError])
  ELSE IF ~ResOk(resp)
    THEN NewError("Twikoo API Http error",
                  [NoDetail EXCEPT !.status = resp.status,
                                   !.statusText = resp.statusText,
                                   !.body = resp.body])
  ELSE IF ~resp.body.json
    THEN NewError("Twikoo API is not json", [NoDetail EXCEPT !.body = resp.body])
  ELSE NewError("Twikoo API error",
                [NoDetail EXCEPT !.code = resp.body.code,
                                 !.message = resp.body.message])

\* The remote answer passes the four checks.
PassesChecks(resp) ==
  resp.reachable /\ ResOk(resp) /\ resp.body.json /\ resp.body.code = 0

\* C13: the step "fetch comments" returns a payload only for an answer that
\* passes the four checks, and then the answer's data; an answer that
\* fails one makes the attempt fail, and the error the run ends with is
\* the one of the first failed check in the order transport, HTTP status
\* (with status, status text and body), malformed body, remote code (with
\* code and message).
C13_Classified ==
  \A r \in RunIds :
    /\ (runs[r].state = "running" /\ FetchStep \in runs[r].done)
         => PassesChecks(runs[r].resp) /\ runs[r].comments = runs[r].resp.body.data
    /\ (runs[r].state = "running" /\ FetchStep \notin runs[r].done /\ runs[r].tries > 0)
         => ~PassesChecks(runs[r].resp)
    /\ (runs[r].state = "errored" /\ FetchStep \notin runs[r].done)
         => /\ ~PassesChecks(runs[r].resp)
            /\ runs[r].error = ClaimedFetchError(runs[r].resp)

\* The errors an attempt of step `name` can end with.
StepErrors(name) ==
  IF name = FetchStep THEN { FetchComments(resp).error : resp \in Responses } \ {NoError}
  ELSE IF name = SaveStep THEN {D1Error, D1TypeError}
  ELSE {D1Error}

\* C12: a run whose step has failed its last attempt ends failed in that
\* very step with the step's error: it has returned no result, has logged
\* the failure with that error, has entered no later step and does
\* nothing more; a step whose callback raised is not recorded as done, and
\* a run reports success only with no error and all three steps recorded.
C12_ErrorsPropagate ==
  /\ [](\A r \in RunIds :
          /\ runs[r].state = "errored"
               => /\ runs[r].result = NoResult
                  /\ runs[r].logged = "failure"
                  /\ runs[r].error # NoError
                  /\ runs[r].logError = runs[r].error
                  /\ runs[r].started = runs[r].done \cup {NextStep(runs[r])}
                  /\ NextStep(runs[r]) \in StepNames
          /\ (runs[r].state = "complete" \/ runs[r].logged = "success")
               => runs[r].error = NoError /\ runs[r].done = StepNames)
  /\ [][\A r \in RunIds :
          /\ runs[r].state = "errored" => runs'[r] = runs[r]
          /\ Completes(r, FetchStep) => PassesChecks(runs'[r].resp)
          /\ Completes(r, SaveStep) => Stringify(runs[r].comments).set /\ db' # db
          /\ \A name \in StepNames :
               ( /\ Attempts(r, name)
                 /\ ~Completes(r, name)
                 /\ runs[r].tries + 1 = MaxAttempts )
                 => /\ runs'[r].state = "errored"
                    /\ runs'[r].error \in StepErrors(name)
                    /\ name = FetchStep
                         => runs'[r].error = FetchComments(runs'[r].resp).error
                    /\ runs'[r].done = runs[r].done]_vars

C12_Witness ==
  \E r \in RunIds :
    /\ runs[r].state = "errored"
    /\ runs[r].error = D1TypeError
    /\ runs[r].logError = D1TypeError
    /\ runs[r].started = {FetchStep, SaveStep}
    /\ runs[r].ins = {}

\* C14: when the remote answers code 0 with data D (present), the step
\* "fetch comments" records D itself, every row the run inserts holds the
\* serialization of D, and an authorised download of an id in the table
\* answers 200 with exactly that row's content and the file name
\* twikoo-comment-<date>.json of that row's date: for a row a running
\* run inserted, the serialization of the D that was fetched.
C14_RoundTrip ==
  /\ [](\A r \in RunIds :
          (runs[r].state = "running" /\ FetchStep \in runs[r].done)
            => /\ runs[r].resp.body.code = 0
               /\ runs[r].comments = runs[r].resp.body.data
               /\ \A row \in db :
                    row.id \in runs[r].ins
                      => Str(row.content) = Stringify(runs[r].resp.body.data))
  /\ [][(Serves("download") /\ isValid(last'.req, panelEnv))
          => \A row \in db :
               IdText(row.id) = DownloadId(last'.req.path)
                 => /\ last'.res.status = 200
                    /\ last'.res.content = row.content
                    /\ last'.res.disposition
                         = <<"attachment; filename=twikoo-comment-", row.date, ".json">>
                    /\ \A r \in RunIds :
                         (row.id \in runs[r].ins /\ runs[r].state = "running")
                           => Str(last'.res.content) = Stringify(runs[r].resp.body.data)]_vars

C14_Witness ==
  /\ last.handler = "download"
  /\ last.res.status = 200
  /\ last.res.content = <<"[", "7", "]">>
  /\ last.res.disposition = <<"attachment; filename=twikoo-comment-", 1, ".json">>
  /\ \E r \in RunIds, row \in db :
       /\ row.id \in runs[r].ins
       /\ IdText(row.id) = DownloadId(last.req.path)
       /\ runs[r].resp.body.data = Arr(<<7>>)
       /\ runs[r].state = "running"

\* C15: an authorised list request answers 200 with a sequence that has
\* exactly one entry {id, date, size} for each row of the table (size the
\* length of its content) and no other entry, in strictly decreasing id;
\* it is the empty sequence when the table is empty.
C15_ListIsTheStore ==
  [][(Serves("list") /\ isValid(last'.req, panelEnv))
       => LET rows == last'.res.rows
          IN /\ last'.res.status = 200
             /\ Len(rows) = Cardinality(db)
             /\ { rows[i] : i \in 1..Len(rows) }
                  = { [id |-> row.id, date |-> row.date, size |-> Len(row.content)] : row \in db }
             /\ \A i, j \in 1..Len(rows) : i < j => rows[i].id > rows[j].id
             /\ db = {} => rows = <<>>]_vars

C15_Witness ==
  /\ last.handler = "list"
  /\ last.res.status = 200
  /\ Len(last.res.rows) = 4
  /\ last.res.rows[1] = [id |-> 4, date |-> 1, size |-> 3]
  /\ last.res.rows[4] = [id |-> 1, date |-> 0, size |-> 2]

\* C16: an authorised download request for an id that no row of the table
\* has (never inserted, or deleted by Prune) answers 404 with no content
\* and no file name, and leaves the table as it was.
C16_MissingIdNotFound ==
  [][( /\ Serves("download")
       /\ isValid(last'.req, panelEnv)
       /\ \A row \in db : IdText(row.id) # DownloadId(last'.req.path) )
       => /\ last'.res.status = 404
          /\ last'.res.content = <<>>
          /\ last'.res.rows = <<>>
          /\ last'.res.disposition = NoReply.disposition
          /\ last'.log = logEvent("download_backup", FALSE, DownloadId(last'.req.path))
          /\ db' = db]_vars

\* The row of id 1 was there and has been pruned.
C16_Witness ==
  /\ last.handler = "download"
  /\ last.req.path = <<"download", "1">>
  /\ last.res.status = 404
  /\ Ids(db) = {3, 4}

\* C17: an authorised manual backup request for which create() returns
\* answers 200 with the id of one instance, and that instance is the only
\* thing the request changed: it was not there before, is queued now and
\* has entered no step.  When create() throws the answer is 500 and no
\* instance is started.  No step of a run changes the answer given.
C17_AckWithoutWaiting ==
  [][/\ (Serves("backup") /\ isValid(last'.req, panelEnv))
          => \/ \E r \in RunIds :
                  /\ last'.res.status = 200
                  /\ last'.res.id = r
                  /\ last'.log = logEvent("manual_backup", TRUE, r)
                  /\ runs[r].state = "none"
                  /\ runs'[r] = [runs[r] EXCEPT !.state = "queued"]
                  /\ runs'[r].started = {}
                  /\ \A q \in RunIds \ {r} : runs'[q] = runs[q]
                  /\ db' = db
             \/ /\ last'.res.status = 500
                /\ last'.res.id = ""
                /\ last'.log = logEvent("manual_backup", FALSE, "")
                /\ runs' = runs
                /\ db' = db
     /\ (runs' # runs /\ ~Serves("backup") /\ ~Serves("scheduled")) => last' = last]_vars

\* The acknowledgement of a run that has failed since.
C17_Witness ==
  /\ last.handler = "backup"
  /\ last.res.status = 200
  /\ last.res.id = "i1"
  /\ runs["i1"].state = "errored"
  /\ runs["i2"].state = "none"

\* C18: one firing of the cron trigger calls create() once: either one
\* instance is started (queued, no step entered, logged with its id) or
\* create() threw, and then no instance is started by this firing, the
\* failure is logged and nothing is thrown out of the handler.  The
\* handler touches neither the table nor another instance.
C18_OneAttemptPerFiring ==
  [][Serves("scheduled")
       => /\ ~last'.threw
          /\ last'.log.event = "cron_backup"
          /\ db' = db
          /\ \/ \E r \in RunIds :
                  /\ last'.log = logEvent("cron_backup", TRUE, r)
                  /\ runs[r].state = "none"
                  /\ runs'[r] = [runs[r] EXCEPT !.state = "queued"]
                  /\ runs'[r].started = {}
                  /\ \A q \in RunIds \ {r} : runs'[q] = runs[q]
             \/ /\ last'.log = logEvent("cron_backup", FALSE, "")
                /\ runs' = runs]_vars

\* A firing whose create() threw: logged, and no instance exists.
C18_Witness ==
  /\ last.handler = "scheduled"
  /\ last.log = logEvent("cron_backup", FALSE, "")
  /\ ~last.threw
  /\ \A r \in RunIds : runs[r].state = "none"

\* The request carries no auth_token cookie, or one whose value is not the
\* hash of the admin password of the deployment.
Denied(req) ==
  LET token == getTokenFromRequest(req)
  IN ~token.set \/ token.str # adminPasswordHash(panelEnv)

\* C19: a request served by the list, download or manual backup branch
\* whose auth_token cookie is absent or is not the hash of the admin
\* password is answered with 401 Unauthorized and nothing else: no list,
\* no content, no file name, no instance id; it starts no instance,
\* changes no row and logs nothing.
C19_Unauthorized ==
  [][( /\ Serves("list") \/ Serves("download") \/ Serves("backup")
       /\ Denied(last'.req) )
       => /\ last'.res = [NoReply EXCEPT !.status = 401, !.text = "Unauthorized"]
          /\ last'.log = NoEvent
          /\ runs' = runs
          /\ db' = db]_vars

\* A download refused although the cookie is the hash of another password and
\* the row asked for is in the table.
C19_Witness ==
  /\ last.handler = "download"
  /\ last.res.status = 401
  /\ last.req.cookie = DefaultCookie
  /\ panelEnv.ADMIN_PASSWORD = Str(<<"p", "w">>)
  /\ last.req.path = <<"download", "1">>
  /\ 1 \in Ids(db)

\* C20: no row is ever rewritten: a row that is in the table before and
\* after a step has the same date and content, and ids are not shared.  The
\* table changes only in an attempt of "save to D1", which adds one row
\* with a new id and deletes none, or in an attempt of "clean D1", which
\* only deletes; no handler of the Worker (login, verify, home, list,
\* download, backup, scheduled) changes it.
C20_AppendOnly ==
  /\ [](\A a, b \in db : a.id = b.id => a = b)
  /\ [][/\ \A a \in db, b \in db' : a.id = b.id => a = b
        /\ db' # db
             => \E r \in RunIds :
                  \/ /\ Attempts(r, SaveStep)
                     /\ db \subseteq db'
                     /\ Cardinality(db') = Cardinality(db) + 1
                     /\ \A new \in db' \ db :
                          /\ \A old \in db : new.id > old.id
                          /\ new.date = runs[r].dateStr
                          /\ Str(new.content) = Stringify(runs[r].comments)
                  \/ /\ Attempts(r, CleanStep)
                     /\ db' \subseteq db
        /\ last' # last => db' = db]_vars

\* A row from before the run is still as it was after the run has inserted
\* and pruned and the panel has listed the table.
C20_Witness ==
  /\ [id |-> 3, date |-> 0, content |-> <<"[", "]">>] \in db
  /\ [id |-> 4, date |-> 1, content |-> <<"[", "7", "]">>] \in db
  /\ Cardinality(db) = 2
  /\ last.handler = "list"
  /\ Len(last.res.rows) = 2
  /\ \E r \in RunIds : runs[r].state = "complete"

\* C21: every row inserted gets an id greater than every id in the table
\* and than every id any run was given before; the largest id of the
\* table never decreases and a non-empty table never becomes empty, so
\* every id ever given stays at or below the largest id and is not given
\* again; an id that stays in the table stays with the same row.
C21_IdsIncrease ==
  /\ [](\A r \in RunIds : \A i \in runs[r].ins :
          db # {} /\ i <= MaxOf(Ids(db)))
  /\ [][/\ \A new \in db' \ db :
             /\ \A old \in db : new.id > old.id
             /\ \A r \in RunIds : \A i \in runs[r].ins : new.id > i
        /\ db # {} => db' # {} /\ MaxOf(Ids(db')) >= MaxOf(Ids(db))
        /\ \A a \in db, b \in db' : a.id = b.id => a = b]_vars

\* A row a run inserted has been pruned, and the row inserted after it has
\* a larger id.
C21_Witness ==
  \E r, q \in RunIds :
    \E i \in runs[r].ins, j \in runs[q].ins :
      /\ i \notin Ids(db)
      /\ j \in Ids(db)
      /\ j > i

\* The keepCount of the deployment: the configured retention when it is a
\* positive integer, 3 otherwise.
ConfiguredKeepCount == IF KeepDays(env) >= 1 THEN KeepDays(env) ELSE 3

\* Some run was started and every started run has returned success.
AllStartedSucceeded ==
  /\ \E r \in RunIds : runs[r].state # "none"
  /\ \A r \in RunIds : runs[r].state \in {"none", "complete"}

\* C22: in every state where every started run has completed successfully,
\* whatever the interleaving of the runs' steps was, the table holds at
\* most keepCount rows.
C22_FinalBound ==
  AllStartedSucceeded => Cardinality(db) <= ConfiguredKeepCount

\* The runs that have returned success, and the latest n of them (the
\* instances run in the order i1, i2).
Succeeded == { r \in RunIds : runs[r].state = "complete" }
Latest(n) == IF n >= Cardinality(Succeeded) THEN Succeeded ELSE Succeeded \ {"i1"}

Min(a, b) == IF a <= b THEN a ELSE b

\* The ids of all rows the runs have inserted.
Inserted == UNION { runs[r].ins : r \in RunIds }

\* C23 (as claimed): from an empty table, after the m-th of m successful
\* runs executed one after another the table holds exactly min(m, k) rows:
\* one row of each of the latest min(m, k) runs and no other.
C23_MinRows ==
  AllStartedSucceeded
    => LET n == Min(Cardinality(Succeeded), ConfiguredKeepCount)
       IN /\ Cardinality(db) = n
          /\ \A r \in Latest(n) : Cardinality(Ids(db) \cap runs[r].ins) = 1
          /\ Ids(db) \subseteq UNION { runs[r].ins : r \in Latest(n) }

\* C23 (amended): from an empty table, after the m-th of m successful runs
\* executed one after another the table holds exactly min(n, k) rows, n
\* the number of rows the runs inserted: the min(n, k) rows inserted last.
\* n is at least m, and when every run inserted one row the table holds
\* one row of each of the latest min(m, k) runs and no other.
C23_MinRowsInserted ==
  AllStartedSucceeded
    => /\ Cardinality(Inserted) >= Cardinality(Succeeded)
       /\ Cardinality(db) = Min(Cardinality(Inserted), ConfiguredKeepCount)
       /\ Ids(db) = Largest(Inserted, ConfiguredKeepCount)
       /\ (\A r \in Succeeded : Cardinality(runs[r].ins) = 1)
            => LET n == Min(Cardinality(Succeeded), ConfiguredKeepCount)
               IN /\ Cardinality(db) = n
                  /\ \A r \in Latest(n) : Cardinality(Ids(db) \cap runs[r].ins) = 1
                  /\ Ids(db) \subseteq UNION { runs[r].ins : r \in Latest(n) }

\* One successful run with keepCount 2 that has left two rows.
C23_Witness ==
  /\ runs["i1"].state = "complete"
  /\ runs["i2"].state = "none"
  /\ ConfiguredKeepCount = 2
  /\ Ids(db) = {1, 2}
  /\ runs["i1"].ins = {1, 2}

\* C24: when the remote answers with an HTTP success status and a body
\* that is not JSON, the run that gives up in the step "fetch comments" ends
\* with the malformed-response error carrying the body's text, and with no
\* other error.
C24_MalformedResponse ==
  \A r \in RunIds :
    ( /\ runs[r].state = "errored"
      /\ FetchStep \notin runs[r].done
      /\ runs[r].resp.reachable
      /\ ResOk(runs[r].resp)
      /\ ~runs[r].resp.body.json )
      => /\ runs[r].error.msg = "Twikoo API is not json"
         /\ runs[r].error.detail.body = runs[r].resp.body

\* The remote answers an attempt of "fetch comments" successfully when the
\* answer passes the four checks and carries the exported data.
AnswersExport(resp) == PassesChecks(resp) /\ resp.body.data # Undefined

\* C25: under fair scheduling every started run eventually ends, with
\* success or failed; it ends failed only by the attempt that exhausts the
\* retry budget of a step, an attempt the remote (fetch) or the store (save,
\* clean) did not answer successfully, and it ends with success only with
\* its three steps completed. So a run whose steps are each answered
\* successfully within the retry budget eventually reaches success.
C25_Terminates ==
  /\ \A r \in RunIds :
        (runs[r].state \in {"queued", "running"})
          ~> (runs[r].state \in {"complete", "errored"})
  /\ [][\A r \in RunIds :
          /\ (runs[r].state # "errored" /\ runs'[r].state = "errored")
               => /\ runs[r].state = "running"
                  /\ runs[r].tries + 1 = MaxAttempts
                  /\ NextStep(runs[r]) = FetchStep => ~PassesChecks(runs'[r].resp)
                  /\ NextStep(runs[r]) = SaveStep
                       => \/ runs'[r].error = D1Error
                          \/ ~AnswersExport(runs[r].resp)
                  /\ NextStep(runs[r]) = CleanStep => runs'[r].error = D1Error
                  /\ NextStep(runs[r]) # "return"
          /\ (runs[r].state # "complete" /\ runs'[r].state = "complete")
               => /\ runs[r].state = "running"
                  /\ runs[r].done = StepNames
                  /\ AnswersExport(runs[r].resp)]_vars

\* A run that failed after the store did not answer the last attempt of
\* "clean D1" in the budget.
C25_Witness ==
  /\ runs[Solo].state = "errored"
  /\ runs[Solo].error = D1Error
  /\ runs[Solo].done = {FetchStep, SaveStep}
  /\ runs[Solo].started = StepNames

\* C26: Prune is idempotent and safe to retry: executed on the table an
\* execution of Prune has left, with no insert in between, it deletes no
\* row, and executed on a table of at most keepCount rows it leaves the
\* table unchanged.
C26_PruneIdempotent ==
  [][\A r \in RunIds :
       Attempts(r, CleanStep)
         => /\ db' \in {db, CleanD1(db, runs[r])}
            /\ (db' # db \/ Completes(r, CleanStep)) => CleanD1(db', runs[r]) = db'
            /\ CleanD1(CleanD1(db, runs[r]), runs[r]) = CleanD1(db, runs[r])
            /\ db = CleanD1(db, runs[r]) => db' = db
            /\ Cardinality(db) <= KeepCount(runs[r]) => db' = db]_vars

\* The retry of a Prune whose first attempt has deleted the rows 1 and 2.
C26_Witness ==
  /\ runs[Solo].state = "running"
  /\ NextStep(runs[Solo]) = CleanStep
  /\ runs[Solo].tries = 1
  /\ CleanStep \in runs[Solo].started
  /\ runs[Solo].keepDays = 2
  /\ Ids(db) = {3, 4}

\* C27: for every retention value that can be configured the LIMIT of Prune
\* is never 0, and in every interleaving of the runs no step deletes the
\* row with the largest id: a table that holds a row never becomes empty
\* again and the newest snapshot is always retained.
C27_NewestRetained ==
  /\ [](\A c \in KeepConfigs : KeepDays(c) # 0)
  /\ [][db # {} => /\ db' # {}
                   /\ \A row \in db : row.id = MaxOf(Ids(db)) => row \in db'
                   /\ \A r \in RunIds :
                        Attempts(r, CleanStep)
                          => MaxOf(Ids(db)) \in SelectTopIds(db, runs[r].keepDays)]_vars

\* Both runs have pruned with keepCount 1 and the row inserted last is the
\* one left.
C27_Witness ==
  /\ \A r \in RunIds : CleanStep \in runs[r].done /\ runs[r].ins # {}
  /\ KeepDays(env) = 1
  /\ Ids(db) = {MaxOf(Inserted)}

\* The run r returns { status: "success" } in this step.
ReturnsSuccess(r) == runs[r].state = "running" /\ runs'[r].state = "complete"

\* The row inserted by the attempt that completed the run's "save to D1".
OwnRow(r) == MaxOf(runs[r].ins)

\* C28 (as claimed): at the moment a run returns success the row it inserted
\* is present in the table, in every interleaving with a concurrent run.
C28_OwnRowSurvives ==
  [][\A r \in RunIds : ReturnsSuccess(r) => OwnRow(r) \in Ids(db')]_vars

\* C28 (amended): at the moment a run returns success the row it inserted
\* is present in the table, or the table holds at least keepCount rows with
\* larger ids, all inserted by the concurrent run; the row is present
\* whenever no other run has inserted a row after it.
C28_OwnRowOrNewer ==
  [][\A r \in RunIds :
       ReturnsSuccess(r)
         => LET newer == { j \in Ids(db') : j > OwnRow(r) }
            IN /\ runs[r].ins # {}
               /\ \/ OwnRow(r) \in Ids(db')
                  \/ /\ runs[r].keepDays >= 1
                     /\ Cardinality(newer) >= runs[r].keepDays
                     /\ newer \subseteq UNION { runs[q].ins : q \in RunIds \ {r} }
               /\ (\A q \in RunIds \ {r} : \A j \in runs[q].ins : j < OwnRow(r))
                    => OwnRow(r) \in Ids(db')]_vars

\* A run has returned success with keepCount 1 after the concurrent run
\* inserted a row: its own row is deleted, the concurrent one is present.
C28_Witness ==
  \E r, q \in RunIds :
    /\ runs[r].state = "complete"
    /\ runs[r].ins # {}
    /\ runs[q].ins # {}
    /\ KeepDays(env) = 1
    /\ Ids(db) \cap runs[r].ins = {}
    /\ Ids(db) \subseteq runs[q].ins
    /\ db # {}

====
